---- MODULE Spec2Model ----
(***************************************************************************)
(* Email summarize-and-speak service (server/app).                         *)
(*                                                                         *)
(* Text is modelled as a sequence of one-character strings, so that        *)
(* len(), strip(), slicing and concatenation are computed as Python        *)
(* computes them.  Exception messages, which the code only lower-cases and *)
(* searches for marker substrings, are sequences of message fragments.     *)
(***************************************************************************)
EXTENDS Integers, Sequences, FiniteSets, TLC

VARIABLES
    requests,   \* per request: position in the handler, its local values, the backend
                \* invocations (calls) and the provider operations called (stages)
    loop,       \* the requests whose handler occupies the event-loop thread (none or one)
    svc,        \* the LangchainService instance (model_provider, llm, model_name)
    env,        \* API keys present in the process environment
    call,       \* calls on the instance: summarize_email (with the instance as it was when
                \* called and the client that served it), the last switch_provider, __init__
    emailIn,    \* raw field values handed to EmailData(...)
    emailOut,   \* what the EmailData constructor produced
    truncIn,    \* the EmailData instance handed to _handle_long_content
    truncOut,   \* the instance it returned, and how often it has been applied
    murf        \* the MurfAIService instance, its __init__ and its text_to_speech call

vars == <<requests, loop, svc, env, call, emailIn, emailOut, truncIn, truncOut, murf>>

None == "None"

(***************************************************************************)
(* Bounds of the model.                                                    *)
(***************************************************************************)
MaxPad == 1       \* longest run of surrounding whitespace in a raw field
MaxCore == 11     \* longest non-blank core of a raw field
MaxShort == 2     \* longest non-blank core of a raw subject or sender
Spread == 1       \* how far around a length threshold the inputs range
LongBody == 20000 \* a body far over the budget
MaxApply == 2     \* how often the truncation step is applied in a row
NReq == 2         \* requests in flight
MaxMsgLen == 2    \* fragments in a backend exception message

(***************************************************************************)
(* Python str operations.                                                  *)
(***************************************************************************)
WS == {" ", "\t", "\n"}

Rep(c, n) == [i \in 1..n |-> c]

Min(a, b) == IF a < b THEN a ELSE b

Max(a, b) == IF a > b THEN a ELSE b

\* s[:k] for k >= 0
Prefix(s, k) == SubSeq(s, 1, Min(k, Len(s)))

\* s.strip()
Strip(s) ==
    LET solid == {i \in 1..Len(s) : s[i] \notin WS}
    IN  IF solid = {} THEN <<>>
        ELSE LET lo == CHOOSE i \in solid : \A j \in solid : i <= j
                 hi == CHOOSE i \in solid : \A j \in solid : i >= j
             IN  SubSeq(s, lo, hi)

Digit(d) == CASE d = 0 -> "0" [] d = 1 -> "1" [] d = 2 -> "2" [] d = 3 -> "3"
              [] d = 4 -> "4" [] d = 5 -> "5" [] d = 6 -> "6" [] d = 7 -> "7"
              [] d = 8 -> "8" [] d = 9 -> "9"

RECURSIVE IntToStr(_)
\* str(n) for n >= 0
IntToStr(n) == IF n < 10 THEN <<Digit(n)>>
               ELSE IntToStr(n \div 10) \o <<Digit(n % 10)>>

(***************************************************************************)
(* models/email.py: EmailData                                              *)
(***************************************************************************)
MinLength == 1
MinBodyLength == 10

\* Field(..., min_length=1): checked on the value as given, before the validators
FieldOk(v) == Len(v) >= MinLength

remove_whitespace_left(v) ==
    LET solid == {i \in 1..Len(v) : v[i] \notin WS}
    IN  IF solid = {} THEN <<>>
        ELSE SubSeq(v, CHOOSE i \in solid : \A j \in solid : i <= j, Len(v))

remove_whitespace(v) == Strip(v)

validate_body_length_loose(v) == TRUE

\* TRUE iff the validator returns v, FALSE iff it raises ValueError
validate_body_length(v) == ~(Len(v) < MinBodyLength)

\* EmailData(subject=..., sender=..., body=...): the instance, or the
\* ValidationError naming the fields that failed
EmailData(subject, sender, body) ==
    LET bad == {f \in {"subject", "sender", "body"} :
                   \/ f = "subject" /\ ~FieldOk(subject)
                   \/ f = "sender" /\ ~FieldOk(sender)
                   \/ f = "body" /\ (~FieldOk(body)
                                      \/ ~validate_body_length(remove_whitespace(body)))}
    IN  IF bad # {}
        THEN [ok |-> FALSE, error |-> bad]
        ELSE [ok |-> TRUE,
              subject |-> remove_whitespace(subject),
              sender |-> remove_whitespace(sender),
              body |-> remove_whitespace(body)]

(***************************************************************************)
(* services/langchain_service.py: _handle_long_content                     *)
(***************************************************************************)
max_input_chars == 12000
Buffer == 200

TruncMarkerHead == <<"\n", "\n", "[", "C", "o", "n", "t", "e", "n", "t", " ",
                     "t", "r", "u", "n", "c", "a", "t", "e", "d", " ", "-", " ",
                     "o", "r", "i", "g", "i", "n", "a", "l", ":", " ">>
TruncMarkerTail == <<" ", "c", "h", "a", "r", "s", "]">>

TruncMarker(original_length) ==
    TruncMarkerHead \o IntToStr(original_length) \o TruncMarkerTail

\* f"{subject} {sender} {body}"
TotalContent(e) == e.subject \o <<" ">> \o e.sender \o <<" ">> \o e.body

handle_long_content_small_buffer(e) ==
    IF Len(TotalContent(e)) > max_input_chars
    THEN LET overhead == Len(e.subject) + Len(e.sender) + 40
             max_body_length == max_input_chars - overhead
         IN  IF max_body_length > 0
             THEN [e EXCEPT !.body = Prefix(e.body, max_body_length)
                                       \o TruncMarker(Len(e.body))]
             ELSE e
    ELSE e

handle_long_content_from_limit(e) ==
    IF Len(TotalContent(e)) >= max_input_chars
    THEN LET overhead == Len(e.subject) + Len(e.sender) + Buffer
             max_body_length == max_input_chars - overhead
         IN  IF max_body_length > 0
             THEN [e EXCEPT !.body = Prefix(e.body, max_body_length)
                                       \o TruncMarker(Len(e.body))]
             ELSE e
    ELSE e

handle_long_content_nobuffer(e) ==
    IF Len(TotalContent(e)) > max_input_chars
    THEN LET max_body_length == max_input_chars - (Len(e.subject) + Len(e.sender))
         IN  IF max_body_length > 0
             THEN [e EXCEPT !.body = Prefix(e.body, max_body_length)
                                       \o TruncMarker(Len(e.body))]
             ELSE e
    ELSE e

handle_long_content(e) ==
    IF Len(TotalContent(e)) > max_input_chars
    THEN LET overhead == Len(e.subject) + Len(e.sender) + Buffer
             max_body_length == max_input_chars - overhead
         IN  IF max_body_length > 0
             THEN [e EXCEPT !.body = Prefix(e.body, max_body_length)
                                       \o TruncMarker(Len(e.body))]
             ELSE e
    ELSE e

(***************************************************************************)
(* Exception messages: sequences of fragments.  lower() and the `in`       *)
(* substring test are computed on the fragments.                           *)
(***************************************************************************)
LowerTok(t) == CASE t = "RATE_LIMIT" -> "rate_limit"
                 [] t = "API_KEY_INVALID" -> "api_key_invalid"
                 [] OTHER -> t

\* msg.lower()
Lower(msg) == [i \in 1..Len(msg) |-> LowerTok(msg[i])]

\* marker in msg
Contains(msg, marker) ==
    \E i \in 0..(Len(msg) - Len(marker)) :
        \A j \in 1..Len(marker) : msg[i + j] = marker[j]

M_rate_limit_exceeded == <<"rate_limit", "_exceeded">>
M_invalid_api_key == <<"invalid_api_key">>
M_insufficient_quota == <<"insufficient_", "quota">>
M_api_key_invalid == <<"api_key_invalid">>
M_quota_exceeded == <<"quota", "_exceeded">>
M_rate_limit == <<"rate_limit">>

OpenAIRateLimitMsg == <<"OpenAI API rate limit exceeded. Please try again later.">>
OpenAIKeyMsg == <<"Invalid OpenAI API key. Please check your credentials.">>
OpenAIQuotaMsg == <<"OpenAI API quota exceeded. Please check your billing.">>
GeminiKeyMsg == <<"Invalid Gemini API key. Please check your credentials.">>
GeminiQuotaMsg == <<"Gemini API quota exceeded. Please try again later.">>
GeminiRateLimitMsg == <<"Gemini API rate limit exceeded. Please try again later.">>

\* str(e) of the pydantic ValidationError raised by EmailData(...)
ValidationErrorMsg == <<"validation error for EmailData">>

(***************************************************************************)
(* services/langchain.py, services/langchain_service.py: LangchainService  *)
(***************************************************************************)
GEMINI == "gemini"
OPENAI == "openai"
ModelProvider == {GEMINI, OPENAI}

EnvKeys == {"GEMINI_API_KEY", "GOOGLE_AI_API_KEY", "OPENAI_API_KEY"}

\* an identifier handed to __init__ or switch_provider: an enum member or a str
Identifiers ==
    [kind : {"enum"}, v : ModelProvider]
        \cup [kind : {"str"}, v : {"gemini", "openai", "OpenAI", "claude"}]

LowerId(s) == IF s = "OpenAI" THEN "openai" ELSE s

\* ModelProvider(x.lower()) for a str, x itself for an enum member;
\* None where the code raises ValueError("Invalid model provider ...")
ToProvider(x) ==
    IF x.kind = "str"
    THEN IF LowerId(x.v) \in ModelProvider THEN LowerId(x.v) ELSE None
    ELSE x.v

\* _initialize_gemini: ValueError when no key is set, else model_name is
\* assigned and then the client is built (ctorOk: the client constructor returned)
initialize_gemini(e, ctorOk) ==
    IF ~("GEMINI_API_KEY" \in e \/ "GOOGLE_AI_API_KEY" \in e)
    THEN [raised |-> TRUE, named |-> FALSE]
    ELSE IF ctorOk
         THEN [raised |-> FALSE, named |-> TRUE, model_name |-> "gemini-2.0-flash-001",
               llm |-> [client |-> "ChatGoogleGenerativeAI", of |-> GEMINI]]
         ELSE [raised |-> TRUE, named |-> TRUE, model_name |-> "gemini-2.0-flash-001"]

\* _initialize_openai
initialize_openai(e, ctorOk) ==
    IF ~("OPENAI_API_KEY" \in e)
    THEN [raised |-> TRUE, named |-> FALSE]
    ELSE IF ctorOk
         THEN [raised |-> FALSE, named |-> TRUE, model_name |-> "gpt-4o",
               llm |-> [client |-> "ChatOpenAI", of |-> OPENAI]]
         ELSE [raised |-> TRUE, named |-> TRUE, model_name |-> "gpt-4o"]

\* _initialize_llm
initialize_llm(provider, e, ctorOk) ==
    IF provider = GEMINI THEN initialize_gemini(e, ctorOk)
    ELSE IF provider = OPENAI THEN initialize_openai(e, ctorOk)
    ELSE [raised |-> TRUE, named |-> FALSE]

\* the instance fields after self.llm = self._initialize_llm() ran on `self`
\* with self.model_provider already assigned
AfterInitialize(self, e, ctorOk) ==
    LET r == initialize_llm(self.model_provider, e, ctorOk)
        named == IF r.named THEN [self EXCEPT !.model_name = r.model_name] ELSE self
    IN  IF r.raised THEN named ELSE [named EXCEPT !.llm = r.llm]

Unbuilt == [built |-> FALSE, model_provider |-> None, llm |-> None, model_name |-> None]

\* __init__(model_provider): the instance, or Unbuilt where __init__ raised
NewService(x, e, ctorOk) ==
    IF ToProvider(x) = None THEN Unbuilt
    ELSE LET s0 == [Unbuilt EXCEPT !.model_provider = ToProvider(x)]
         IN  IF initialize_llm(ToProvider(x), e, ctorOk).raised THEN Unbuilt
             ELSE [AfterInitialize(s0, e, ctorOk) EXCEPT !.built = TRUE]

\* switch_provider(new_provider): whether it raised, and the instance afterwards
switch_provider(self, x, e, ctorOk) ==
    IF ToProvider(x) = None THEN [raised |-> TRUE, self |-> self]
    ELSE IF ToProvider(x) # self.model_provider
         THEN LET s1 == [self EXCEPT !.model_provider = ToProvider(x)]
              IN  [raised |-> initialize_llm(ToProvider(x), e, ctorOk).raised,
                   self |-> AfterInitialize(s1, e, ctorOk)]
         ELSE [raised |-> FALSE, self |-> self]

service_initialize_gemini_unchecked(e, ctorOk) ==
    IF ctorOk
    THEN [raised |-> FALSE, named |-> TRUE, model_name |-> "gemini-2.0-flash-001",
          llm |-> [client |-> "ChatGoogleGenerativeAI", of |-> GEMINI]]
    ELSE [raised |-> TRUE, named |-> TRUE, model_name |-> "gemini-2.0-flash-001"]

\* services/langchain_service.py, the module the controller imports:
\* _initialize_gemini reads GEMINI_API_KEY only
service_initialize_gemini(e, ctorOk) ==
    IF ~("GEMINI_API_KEY" \in e)
    THEN [raised |-> TRUE, named |-> FALSE]
    ELSE IF ctorOk
         THEN [raised |-> FALSE, named |-> TRUE, model_name |-> "gemini-2.0-flash-001",
               llm |-> [client |-> "ChatGoogleGenerativeAI", of |-> GEMINI]]
         ELSE [raised |-> TRUE, named |-> TRUE, model_name |-> "gemini-2.0-flash-001"]

service_initialize_llm(provider, e, ctorOk) ==
    IF provider = GEMINI THEN service_initialize_gemini(e, ctorOk)
    ELSE IF provider = OPENAI THEN initialize_openai(e, ctorOk)
    ELSE [raised |-> TRUE, named |-> FALSE]

\* services/langchain_service.py __init__(model_provider): the instance, or
\* Unbuilt where __init__ raised
NewPipelineService(x, e, ctorOk) ==
    LET r == service_initialize_llm(ToProvider(x), e, ctorOk)
    IN  IF ToProvider(x) = None \/ r.raised THEN Unbuilt
        ELSE [built |-> TRUE, model_provider |-> ToProvider(x), llm |-> r.llm,
              model_name |-> r.model_name]

BriefHead == <<"B", "r", "i", "e", "f", " ", "e", "m", "a", "i", "l", " ",
               "f", "r", "o", "m", " ">>

NoContentMsg == <<"Email has no subject or body content">>
TooShortMsg == <<"Email content too short for meaningful summary">>
EmptyResponseMsg == <<"Empty response received from the model">>
ShortHandler == "short_email_handler"
ShortContentLimit == 10

\* _validate_email_data
validate_email_data(e) ==
    IF e.subject = <<>> /\ e.body = <<>>
    THEN [valid |-> FALSE, error |-> NoContentMsg]
    ELSE LET total_content == Strip(e.subject \o <<" ">> \o e.body)
         IN  IF Len(total_content) < ShortContentLimit
             THEN [valid |-> FALSE, error |-> TooShortMsg,
                   suggestion |-> BriefHead \o e.sender \o <<":", " ">> \o total_content]
             ELSE [valid |-> TRUE]

\* create_summary_prompt: the fixed template around the three fields
create_summary_prompt(e) ==
    [template |-> "summary_prompt", subject |-> e.subject, sender |-> e.sender,
     body |-> e.body]

normalize_error_no_gemini_rate(provider, error_message) ==
    IF provider = OPENAI
    THEN IF Contains(Lower(error_message), M_rate_limit_exceeded) THEN OpenAIRateLimitMsg
         ELSE IF Contains(Lower(error_message), M_invalid_api_key) THEN OpenAIKeyMsg
         ELSE IF Contains(Lower(error_message), M_insufficient_quota) THEN OpenAIQuotaMsg
         ELSE error_message
    ELSE IF provider = GEMINI
    THEN IF Contains(Lower(error_message), M_api_key_invalid) THEN GeminiKeyMsg
         ELSE IF Contains(Lower(error_message), M_quota_exceeded) THEN GeminiQuotaMsg
         ELSE error_message
    ELSE error_message

\* the except branch of summarize_email: the message put in the result
normalize_error(provider, error_message) ==
    IF provider = OPENAI
    THEN IF Contains(Lower(error_message), M_rate_limit_exceeded) THEN OpenAIRateLimitMsg
         ELSE IF Contains(Lower(error_message), M_invalid_api_key) THEN OpenAIKeyMsg
         ELSE IF Contains(Lower(error_message), M_insufficient_quota) THEN OpenAIQuotaMsg
         ELSE error_message
    ELSE IF provider = GEMINI
    THEN IF Contains(Lower(error_message), M_api_key_invalid) THEN GeminiKeyMsg
         ELSE IF Contains(Lower(error_message), M_quota_exceeded) THEN GeminiQuotaMsg
         ELSE IF Contains(Lower(error_message), M_rate_limit) THEN GeminiRateLimitMsg
         ELSE error_message
    ELSE error_message

\* the dict the except branch returns
ExceptResult(self, error_message) ==
    [success |-> FALSE,
     error |-> normalize_error(self.model_provider, error_message),
     provider |-> self.model_provider]

\* summarize_email up to self.llm.invoke(messages): either the dict it
\* returns without calling the backend, or the prompt it invokes the backend with
summarize_begin(self, subject, sender, body) ==
    LET made == EmailData(subject, sender, body)
    IN  IF ~made.ok
        THEN [invoke |-> FALSE, result |-> ExceptResult(self, ValidationErrorMsg)]
        ELSE LET email_data == [subject |-> made.subject, sender |-> made.sender,
                                body |-> made.body]
                 validation == validate_email_data(email_data)
             IN  IF ~validation.valid
                 THEN IF "suggestion" \in DOMAIN validation
                      THEN [invoke |-> FALSE,
                            result |-> [success |-> TRUE,
                                        summary |-> validation.suggestion,
                                        provider |-> self.model_provider,
                                        model |-> ShortHandler]]
                      ELSE [invoke |-> FALSE,
                            result |-> [success |-> FALSE, error |-> validation.error]]
                 ELSE [invoke |-> TRUE,
                       prompt |-> create_summary_prompt(handle_long_content(email_data))]

NoStripMsg == <<"'NoneType' object has no attribute 'strip'">>

summarize_end_keeps_summary(self, outcome) ==
    IF outcome.kind = "raise"
    THEN ExceptResult(self, outcome.msg)
    ELSE IF outcome.kind = "return_none"
    THEN ExceptResult(self, NoStripMsg)
    ELSE LET summary == Strip(outcome.content)
         IN  IF summary = <<>>
             THEN [success |-> FALSE, summary |-> summary, error |-> EmptyResponseMsg]
             ELSE [success |-> TRUE, summary |-> summary,
                   provider |-> self.model_provider, model |-> self.model_name]

\* summarize_email from the return of self.llm.invoke: the backend either
\* returned a response with some content, returned one whose content is None
\* (content.strip() then raises AttributeError), or raised with some message
summarize_end(self, outcome) ==
    IF outcome.kind = "raise"
    THEN ExceptResult(self, outcome.msg)
    ELSE IF outcome.kind = "return_none"
    THEN ExceptResult(self, NoStripMsg)
    ELSE LET summary == Strip(outcome.content)
         IN  IF summary = <<>>
             THEN [success |-> FALSE, error |-> EmptyResponseMsg]
             ELSE [success |-> TRUE, summary |-> summary,
                   provider |-> self.model_provider, model |-> self.model_name]

(***************************************************************************)
(* Python values that reach a truth test or str(): tagged by their type.   *)
(***************************************************************************)
PyDict(d) == [type |-> "dict", v |-> d]
PyStr(chars) == [type |-> "str", form |-> "chars", v |-> chars]
PyNone == [type |-> "NoneType"]

\* bool(x): a dict is false only when it has no keys, a str only when empty,
\* None always, any other object never
Truthy(x) ==
    CASE x.type = "dict" -> DOMAIN x.v # {}
      [] x.type = "str" -> IF x.form = "chars" THEN x.v # <<>> ELSE TRUE
      [] x.type = "NoneType" -> FALSE
      [] OTHER -> TRUE

\* str(x): a str is itself, a dict becomes the text of its repr
ToStr(x) == IF x.type = "str" THEN x ELSE [type |-> "str", form |-> "repr", v |-> x.v]

(***************************************************************************)
(* services/murfai_service.py: MurfAIService.text_to_speech                *)
(***************************************************************************)
NoAudioMsg == <<"No audio file generated">>
TtsErrorHead == <<"Error in text-to-speech conversion: ">>

\* the text handed to client.text_to_speech.generate
tts_request_text(text) == IF text.type # "str" THEN ToStr(text) ELSE text

text_to_speech_end_unchecked(outcome) ==
    IF outcome.kind = "raise"
    THEN [raised |-> TRUE, msg |-> TtsErrorHead \o outcome.msg]
    ELSE IF ~Truthy(outcome.response)
         THEN [raised |-> TRUE, msg |-> TtsErrorHead \o NoAudioMsg]
         ELSE [raised |-> FALSE, audio_file |-> outcome.response.audio_file]

\* text_to_speech from the return of generate: the audio_file it returns, or
\* the message of the Exception it raises
text_to_speech_end(outcome) ==
    IF outcome.kind = "raise"
    THEN [raised |-> TRUE, msg |-> TtsErrorHead \o outcome.msg]
    ELSE IF ~Truthy(outcome.response) \/ ~Truthy(outcome.response.audio_file)
         THEN [raised |-> TRUE, msg |-> TtsErrorHead \o NoAudioMsg]
         ELSE [raised |-> FALSE, audio_file |-> outcome.response.audio_file]

DefaultVoice == "en-US-natalie"

UnbuiltMurf == [built |-> FALSE, api_key |-> PyNone, default_voice |-> None]

\* os.getenv(name): the value of a variable that is set, else None
getenv(e, name) == IF name \in e THEN PyStr(<<"k", "e", "y">>) ELSE PyNone

\* MurfAIService.__init__(api_key): the instance, or UnbuiltMurf where it raised
NewMurf(api_key, e) ==
    LET key == IF Truthy(api_key) THEN api_key ELSE getenv(e, "MURF_API_KEY")
    IN  IF ~Truthy(key) THEN UnbuiltMurf
        ELSE [built |-> TRUE, api_key |-> key, default_voice |-> DefaultVoice]

(***************************************************************************)
(* controllers/email_summarizer_controller.py, routers/email_router.py     *)
(***************************************************************************)
SummaryFailedDetail == <<"Failed to generate email summary">>
AudioFailedDetail == <<"Failed to generate audio file">>
UnexpectedHead == <<"An error occurred while processing the email: ">>
RouterUnexpectedHead == <<"An unexpected error occurred: ">>
ServerError == 500

HTTPException(status_code, detail) ==
    [kind |-> "HTTPException", status_code |-> status_code, detail |-> detail]

controller_except_reraise(exc) == exc

\* the except clauses of EmailSummarizerController.summarize_email
controller_except(exc) ==
    IF exc.kind = "HTTPException" THEN exc
    ELSE HTTPException(ServerError, UnexpectedHead \o exc.msg)

\* the controller after summarize_email returned summary_text: raise, or go
\* on to text_to_speech
controller_summary_check(summary_text) ==
    IF ~Truthy(summary_text)
    THEN [go |-> FALSE, exc |-> controller_except(HTTPException(ServerError, SummaryFailedDetail))]
    ELSE [go |-> TRUE]

\* the controller after text_to_speech ended: what summarize_email returns or raises
controller_finish(summary_text, tts) ==
    IF tts.raised
    THEN controller_except([kind |-> "Exception", msg |-> tts.msg])
    ELSE IF ~Truthy(tts.audio_file)
         THEN controller_except(HTTPException(ServerError, AudioFailedDetail))
         ELSE [kind |-> "return",
               value |-> [summary |-> summary_text, summary_audio_link |-> tts.audio_file]]

\* routers/email_router.py summarize_email: the HTTP response for what the
\* controller returned or raised
router_response(out) ==
    IF out.kind = "return" THEN [status |-> 200, body |-> out.value]
    ELSE IF out.kind = "HTTPException"
         THEN [status |-> out.status_code, detail |-> out.detail]
         ELSE [status |-> ServerError, detail |-> RouterUnexpectedHead \o out.msg]

\* the framework's answer when the body does not validate as EmailData
validation_response(made) == [status |-> 422, detail |-> <<"validation error">>]

(***************************************************************************)
(* Inputs.                                                                 *)
(***************************************************************************)
Hi == <<"H", "i">>
ok == <<"o", "k">>
Addr == <<"a", "@", "b", ".", "c", "o", "m">>
Url == <<"u", "r", "l">>

\* j characters with no blank at either end, and a blank inside when j >= 3
Core(j) == [i \in 1..j |-> IF i = 2 /\ j >= 3 THEN " " ELSE "a"]

Pads == {Rep(c, n) : c \in {" ", "\t"}, n \in 0..MaxPad}

RawStrings(maxCore) == {l \o Core(j) \o r : l \in Pads, r \in Pads, j \in 0..maxCore}

AllKeys == {"GEMINI_API_KEY", "OPENAI_API_KEY"}

Tokens == {"rate_limit", "RATE_LIMIT", "_exceeded", "quota", "insufficient_",
           "invalid_api_key", "api_key_invalid", "timeout"}

Messages(n) == UNION {[1..k -> Tokens] : k \in 0..n}

Contents == {<<>>, <<" ">>, <<" ", "O", "k", ".", "\n">>}

LlmOutcomes(n) ==
    [kind : {"return"}, content : Contents] \cup [kind : {"return_none"}]
        \cup [kind : {"raise"}, msg : Messages(n)]

FewLlmOutcomes ==
    [kind : {"return"}, content : {<<" ">>, <<" ", "O", "k", ".", "\n">>}]
        \cup [kind : {"raise"}, msg : {<<"rate_limit", "_exceeded">>, <<"timeout">>}]

TtsOutcomes ==
    [kind : {"return"},
     response : {PyNone} \cup [type : {"Response"}, audio_file : {PyStr(<<>>), PyStr(Url)}]]
        \cup [kind : {"raise"}, msg : {<<"timeout">>}]

Payloads ==
    [subject : {Hi, <<" ">>, <<>>}, sender : {Addr},
     body : {ok, <<" ">> \o Core(MinBodyLength) \o <<"\n">>}]

(***************************************************************************)
(* EmailData construction on its own.                                      *)
(***************************************************************************)
Unset == [type |-> "unset"]
NoEmail == [subject |-> <<>>, sender |-> <<>>, body |-> <<>>]

EmailIdle == emailIn = NoEmail /\ emailOut = Unset

InitEmail ==
    /\ emailIn \in [subject : RawStrings(MaxShort), sender : RawStrings(MaxShort),
                    body : RawStrings(MaxCore)]
    /\ emailOut = Unset

ConstructEmail ==
    /\ emailOut = Unset
    /\ emailOut' = EmailData(emailIn.subject, emailIn.sender, emailIn.body)
    /\ UNCHANGED <<murf, requests, loop, svc, env, call, emailIn, truncIn, truncOut>>

(***************************************************************************)
(* _handle_long_content on its own.                                        *)
(***************************************************************************)
TruncIdle == truncIn = NoEmail /\ truncOut = [n |-> 0, e |-> NoEmail]

SenderLens == {1, Len(Addr)}

SubjectLens(n) ==
    {0, Len(Hi)} \cup {max_input_chars - Buffer - n + d : d \in (0 - Spread)..Spread}

BodyLens(s, n) ==
    {MinBodyLength, LongBody}
        \cup {Max(MinBodyLength, max_input_chars - 2 - s - n + d) : d \in (0 - Spread)..Spread}

\* the instances summarize_email hands over: stripped fields, body of 10 or more
InitTrunc ==
    /\ \E n \in SenderLens : \E s \in SubjectLens(n) : \E b \in BodyLens(s, n) :
           truncIn = [subject |-> Rep("s", s), sender |-> Rep("f", n), body |-> Rep("b", b)]
    /\ truncOut = [n |-> 0, e |-> truncIn]

ApplyTrunc ==
    /\ truncOut.n < MaxApply
    /\ truncOut' = [n |-> truncOut.n + 1, e |-> handle_long_content(truncOut.e)]
    /\ UNCHANGED <<murf, requests, loop, svc, env, call, emailIn, emailOut, truncIn>>

(***************************************************************************)
(* Calls on a LangchainService instance.                                   *)
(***************************************************************************)
NoCall == [pc |-> "idle", args |-> NoEmail, invoked |-> 0, served_by |-> None,
           at_call |-> Unbuilt, outcome |-> Unset, result |-> Unset, peer |-> Unset]
NoSwitch == [done |-> FALSE]
NoCtor == [tried |-> FALSE]

NoTts == [pc |-> "idle", text |-> Unset, outcome |-> Unset, result |-> Unset]
NoMurf == [self |-> UnbuiltMurf, ctor |-> NoCtor, tts |-> NoTts]

MurfIdle == murf = NoMurf

SvcIdle ==
    /\ svc = Unbuilt /\ env = {}
    /\ call = [sum |-> NoCall, switch |-> NoSwitch, ctor |-> NoCtor]
    /\ MurfIdle

Other(p) == IF p = GEMINI THEN OPENAI ELSE GEMINI

\* an instance like self, configured for the other provider
Peer(self) == NewService([kind |-> "enum", v |-> Other(self.model_provider)], AllKeys, TRUE)

\* service.summarize_email(subject, sender, body) is called and runs until it
\* returns or is waiting in self.llm.invoke
SummarizeCall(inputs) ==
    /\ svc.built
    /\ call.sum.pc \in {"idle", "returned"}
    /\ \E a \in inputs :
          LET b == summarize_begin(svc, a.subject, a.sender, a.body)
          IN  call' = [call EXCEPT !.sum =
                  IF b.invoke
                  THEN [NoCall EXCEPT !.pc = "invoked", !.args = a, !.invoked = 1,
                                      !.served_by = svc.llm.of, !.at_call = svc]
                  ELSE [NoCall EXCEPT !.pc = "returned", !.args = a, !.result = b.result,
                                      !.at_call = svc,
                                      !.peer = summarize_begin(Peer(svc), a.subject,
                                                               a.sender, a.body).result]]
    /\ UNCHANGED <<murf, requests, loop, svc, env, emailIn, emailOut, truncIn, truncOut>>

\* the backend answers and summarize_email runs to its return
SummarizeReturn(outcomes) ==
    /\ call.sum.pc = "invoked"
    /\ \E o \in outcomes :
          call' = [call EXCEPT !.sum = [@ EXCEPT !.pc = "returned", !.outcome = o,
                                                 !.result = summarize_end(svc, o),
                                                 !.peer = summarize_end(Peer(svc), o)]]
    /\ UNCHANGED <<murf, requests, loop, svc, env, emailIn, emailOut, truncIn, truncOut>>

\* LangchainService(x)
Construct ==
    /\ ~svc.built
    /\ \E x \in Identifiers, ctorOk \in BOOLEAN :
          /\ svc' = NewService(x, env, ctorOk)
          /\ call' = [call EXCEPT !.ctor = [tried |-> TRUE, x |-> x, raised |-> ~svc'.built]]
    /\ UNCHANGED <<murf, requests, loop, env, emailIn, emailOut, truncIn, truncOut>>

\* service.switch_provider(x)
SwitchProvider ==
    /\ svc.built
    /\ \E x \in Identifiers, ctorOk \in BOOLEAN :
          LET r == switch_provider(svc, x, env, ctorOk)
          IN  /\ svc' = r.self
              /\ call' = [call EXCEPT !.switch = [done |-> TRUE, x |-> x, raised |-> r.raised,
                                                  before |-> svc]]
    /\ UNCHANGED <<murf, requests, loop, env, emailIn, emailOut, truncIn, truncOut>>

SumInputs ==
    [subject : {<<>>, Hi, <<" ">>, Core(MinBodyLength)}, sender : {Addr},
     body : {<<>>, ok, Core(MinBodyLength - 1), Core(MinBodyLength),
             <<" ">> \o Core(MinBodyLength)}]

FewInputs == [subject : {Hi}, sender : {Addr}, body : {ok, Core(MinBodyLength)}]

\* summarize_email against either provider, every backend behaviour
InitSum ==
    /\ \E p \in ModelProvider : svc = NewService([kind |-> "enum", v |-> p], AllKeys, TRUE)
    /\ env = AllKeys
    /\ call = [sum |-> NoCall, switch |-> NoSwitch, ctor |-> NoCtor]
    /\ MurfIdle

\* one instance from construction on, in any environment
InitSvc ==
    /\ svc = Unbuilt
    /\ env \in SUBSET EnvKeys
    /\ call = [sum |-> NoCall, switch |-> NoSwitch, ctor |-> NoCtor]
    /\ MurfIdle

(***************************************************************************)
(* The two provider objects the controller builds, from construction on.   *)
(***************************************************************************)
ApiKeys == {PyNone, PyStr(<<>>), PyStr(<<"k">>)}

SpokenTexts == {PyStr(Hi), PyDict([success |-> FALSE, error |-> TooShortMsg])}

\* LangchainService(x) of services/langchain_service.py
ConstructService ==
    /\ ~svc.built
    /\ \E x \in Identifiers, ctorOk \in BOOLEAN :
          /\ svc' = NewPipelineService(x, env, ctorOk)
          /\ call' = [call EXCEPT !.ctor = [tried |-> TRUE, x |-> x, raised |-> ~svc'.built]]
    /\ UNCHANGED <<murf, requests, loop, env, emailIn, emailOut, truncIn, truncOut>>

\* MurfAIService(api_key)
ConstructMurf ==
    /\ ~murf.self.built
    /\ \E k \in ApiKeys :
          LET made == NewMurf(k, env)
          IN  murf' = [murf EXCEPT !.self = made,
                                   !.ctor = [tried |-> TRUE, x |-> k, raised |-> ~made.built]]
    /\ UNCHANGED <<requests, loop, svc, env, call, emailIn, emailOut, truncIn, truncOut>>

\* await murf_service.text_to_speech(text): runs until generate is called
SynthesizeCall ==
    /\ murf.self.built
    /\ murf.tts.pc \in {"idle", "returned"}
    /\ \E t \in SpokenTexts :
          murf' = [murf EXCEPT !.tts = [NoTts EXCEPT !.pc = "called",
                                                     !.text = tts_request_text(t)]]
    /\ UNCHANGED <<requests, loop, svc, env, call, emailIn, emailOut, truncIn, truncOut>>

\* generate returns or raises and text_to_speech runs to its end
SynthesizeReturn ==
    /\ murf.tts.pc = "called"
    /\ \E o \in TtsOutcomes :
          murf' = [murf EXCEPT !.tts = [@ EXCEPT !.pc = "returned", !.outcome = o,
                                                 !.result = text_to_speech_end(o)]]
    /\ UNCHANGED <<requests, loop, svc, env, call, emailIn, emailOut, truncIn, truncOut>>

\* both objects unbuilt, in any environment
InitCtor ==
    /\ svc = Unbuilt
    /\ env \in SUBSET (EnvKeys \cup {"MURF_API_KEY"})
    /\ call = [sum |-> NoCall, switch |-> NoSwitch, ctor |-> NoCtor]
    /\ MurfIdle

(***************************************************************************)
(* The request pipeline: POST /summarize on the one event loop.            *)
(***************************************************************************)
Req == 1..NReq

NoResponse == [status |-> 0]

NewRequest(payload) ==
    [pc |-> "pending", raw |-> payload, email |-> Unset, calls |-> <<>>, stages |-> <<>>,
     llm_outcome |-> Unset, summary_text |-> Unset, tts_text |-> Unset,
     tts_outcome |-> Unset, response |-> NoResponse]

PipelineIdle == requests = <<>> /\ loop = {}

AfterSummary_retry(q, result) ==
    LET summary_text == PyDict(result)
    IN  IF ~result.success
        THEN [q EXCEPT !.pc = "llm_wait", !.calls = Append(@, "summarize"),
                       !.stages = Append(@, "summarize")]
        ELSE [q EXCEPT !.pc = "tts_wait", !.summary_text = summary_text,
                       !.tts_text = tts_request_text(summary_text),
                       !.calls = Append(@, "synthesize"),
                       !.stages = Append(@, "synthesize")]

\* the controller from the return of langchain_service.summarize_email up to
\* the call of client.text_to_speech.generate, or to its raise
AfterSummary(q, result) ==
    LET summary_text == PyDict(result)
        chk == controller_summary_check(summary_text)
    IN  IF chk.go
        THEN [q EXCEPT !.pc = "tts_wait", !.summary_text = summary_text,
                       !.tts_text = tts_request_text(summary_text),
                       !.calls = Append(@, "synthesize"),
                       !.stages = Append(@, "synthesize")]
        ELSE [q EXCEPT !.pc = "done", !.summary_text = summary_text,
                       !.response = router_response(chk.exc)]

\* the handler keeps the thread while it waits in a synchronous backend call
HeldBy(q, r) == IF q.pc = "done" THEN {} ELSE {r}

\* the framework reads the body, builds EmailData from it and, if that
\* validates, runs the handler until it returns or waits in a backend call
Receive(r) ==
    /\ loop = {}
    /\ requests[r].pc = "pending"
    /\ LET q == requests[r]
           made == EmailData(q.raw.subject, q.raw.sender, q.raw.body)
           b == summarize_begin(svc, made.subject, made.sender, made.body)
           q2 == IF ~made.ok
                 THEN [q EXCEPT !.pc = "done", !.email = made,
                                !.response = validation_response(made)]
                 ELSE IF b.invoke
                      THEN [q EXCEPT !.pc = "llm_wait", !.email = made,
                                     !.calls = Append(@, "summarize"),
                                     !.stages = Append(@, "summarize")]
                      ELSE AfterSummary([q EXCEPT !.email = made,
                                                  !.stages = Append(@, "summarize")],
                                        b.result)
       IN  /\ requests' = [requests EXCEPT ![r] = q2]
           /\ loop' = HeldBy(q2, r)
    /\ UNCHANGED <<murf, svc, env, call, emailIn, emailOut, truncIn, truncOut>>

\* self.llm.invoke returns or raises; the handler runs on to the speech call
LlmReturn(r) ==
    /\ requests[r].pc = "llm_wait"
    /\ \E o \in FewLlmOutcomes :
          LET q2 == AfterSummary([requests[r] EXCEPT !.llm_outcome = o],
                                 summarize_end(svc, o))
          IN  /\ requests' = [requests EXCEPT ![r] = q2]
              /\ loop' = HeldBy(q2, r)
    /\ UNCHANGED <<murf, svc, env, call, emailIn, emailOut, truncIn, truncOut>>

\* client.text_to_speech.generate returns or raises; the handler runs to its end
TtsReturn(r) ==
    /\ requests[r].pc = "tts_wait"
    /\ \E o \in TtsOutcomes :
          LET q == requests[r]
              out == controller_finish(q.summary_text, text_to_speech_end(o))
          IN  requests' = [requests EXCEPT ![r] =
                  [q EXCEPT !.pc = "done", !.tts_outcome = o,
                            !.response = router_response(out)]]
    /\ loop' = {}
    /\ UNCHANGED <<murf, svc, env, call, emailIn, emailOut, truncIn, truncOut>>

\* EmailSummarizerController(): MurfAIService() and LangchainService() built
InitPipeline ==
    /\ requests \in [Req -> {NewRequest(p) : p \in Payloads}]
    /\ loop = {}
    /\ env = AllKeys \cup {"MURF_API_KEY"}
    /\ svc = NewPipelineService([kind |-> "enum", v |-> GEMINI], env, TRUE)
    /\ murf = [NoMurf EXCEPT !.self = NewMurf(PyNone, env)]
    /\ call = [sum |-> NoCall, switch |-> NoSwitch, ctor |-> NoCtor]

(***************************************************************************)
(* Specifications.                                                         *)
(***************************************************************************)
Init == InitPipeline /\ EmailIdle /\ TruncIdle

Next == \E r \in Req : Receive(r) \/ LlmReturn(r) \/ TtsReturn(r)

Spec == Init /\ [][Next]_vars

InitE == InitEmail /\ PipelineIdle /\ SvcIdle /\ TruncIdle

NextEmail == ConstructEmail

SpecEmail == InitE /\ [][NextEmail]_vars

InitT == InitTrunc /\ PipelineIdle /\ SvcIdle /\ EmailIdle

NextTrunc == ApplyTrunc

SpecTrunc == InitT /\ [][NextTrunc]_vars

InitS == InitSum /\ PipelineIdle /\ EmailIdle /\ TruncIdle

NextSum == SummarizeCall(SumInputs) \/ SummarizeReturn(LlmOutcomes(MaxMsgLen))

SpecSum == InitS /\ [][NextSum]_vars

InitV == InitSvc /\ PipelineIdle /\ EmailIdle /\ TruncIdle

NextSvc ==
    \/ Construct
    \/ SwitchProvider
    \/ SummarizeCall(FewInputs)
    \/ SummarizeReturn(FewLlmOutcomes)

SpecSvc == InitV /\ [][NextSvc]_vars

InitC == InitCtor /\ PipelineIdle /\ EmailIdle /\ TruncIdle

NextCtor ==
    \/ ConstructService
    \/ ConstructMurf
    \/ SummarizeCall(FewInputs)
    \/ SummarizeReturn(FewLlmOutcomes)
    \/ SynthesizeCall
    \/ SynthesizeReturn

SpecCtor == InitC /\ [][NextCtor]_vars

(***************************************************************************)
(* Properties.                                                             *)
(***************************************************************************)
Summarized(q) == q.summary_text.type = "dict"

SummaryFailed(q) == Summarized(q) /\ ~q.summary_text.v.success

SummaryOk(q) == Summarized(q) /\ q.summary_text.v.success

TtsEnded(q) == "kind" \in DOMAIN q.tts_outcome

\* the speech backend raised, returned no result, or returned an empty reference
TtsFailed(q) ==
    /\ TtsEnded(q)
    /\ \/ q.tts_outcome.kind = "raise"
       \/ q.tts_outcome.response.type = "NoneType"
       \/ q.tts_outcome.response.audio_file.v = <<>>

Called(q, backend) == \E i \in 1..Len(q.calls) : q.calls[i] = backend

\* C1: whenever summarize returned success=false (a blank model response
\* included) or the backend raised, the request ends Failed with the
\* "summary generation failed" server error and the speech backend is never
\* invoked for it.
C1_SummaryFailureEndsRequest ==
    \A r \in Req :
        SummaryFailed(requests[r]) =>
            /\ ~Called(requests[r], "synthesize")
            /\ requests[r].pc = "done"
            /\ requests[r].response = [status |-> ServerError, detail |-> SummaryFailedDetail]

\* C2: a finished request either carries a response with summary and
\* summary_audio_link both populated, and then both stages succeeded, or it
\* carries a failure and no response object.
C2_NoPartialSuccess ==
    \A r \in Req :
        requests[r].pc = "done" =>
            \/ /\ requests[r].response.status = 200
               /\ Truthy(requests[r].response.body.summary)
               /\ Truthy(requests[r].response.body.summary_audio_link)
               /\ SummaryOk(requests[r])
               /\ ~TtsFailed(requests[r])
            \/ /\ requests[r].response.status # 200
               /\ "body" \notin DOMAIN requests[r].response

\* C3: when summarization succeeded and the speech backend raised, returned
\* no result or returned an empty reference, the request ends Failed with the
\* "audio generation failed" error, not the generic unexpected-error one.
C3_AudioFailureIsStageTagged ==
    \A r \in Req :
        (SummaryOk(requests[r]) /\ TtsFailed(requests[r])) =>
            /\ requests[r].pc = "done"
            /\ requests[r].response = [status |-> ServerError, detail |-> AudioFailedDetail]

\* C4: EmailData construction fails whenever subject, sender or body is empty
\* after trimming, and whenever the trimmed body has fewer than 10
\* characters; no instance has an empty subject, sender or body.
C4_EmptyOrShortRejected ==
    ("ok" \in DOMAIN emailOut) =>
        /\ (\/ Strip(emailIn.subject) = <<>>
            \/ Strip(emailIn.sender) = <<>>
            \/ Len(Strip(emailIn.body)) < MinBodyLength) => ~emailOut.ok
        /\ emailOut.ok =>
               emailOut.subject # <<>> /\ emailOut.sender # <<>> /\ emailOut.body # <<>>

\* C5: a summarize call whose subject and body have a combined trimmed length
\* under 10 (not both empty) returns success with the summary
\* "Brief email from {sender}: {content}" and the sentinel model, and the
\* backend is not invoked.
C5_ShortEmailShortCircuits ==
    LET a == call.sum.args
        content == Strip(Strip(a.subject) \o <<" ">> \o Strip(a.body))
    IN  (/\ call.sum.pc = "returned"
         /\ Len(content) < ShortContentLimit
         /\ ~(Strip(a.subject) = <<>> /\ Strip(a.body) = <<>>)) =>
            /\ call.sum.invoked = 0
            /\ call.sum.result.success
            /\ call.sum.result.summary = BriefHead \o Strip(a.sender) \o <<":", " ">> \o content
            /\ call.sum.result.model = ShortHandler

EndsWith(t, tail) ==
    Len(t) >= Len(tail) /\ SubSeq(t, Len(t) - Len(tail) + 1, Len(t)) = tail

\* the truncation step brought the content within the budget: the body is
\* shorter, ends with the marker of its original length, and subject, sender
\* and the new body together stay within 12,000 characters
WithinBudget ==
    /\ Len(truncOut.e.body) < Len(truncIn.body)
    /\ Len(TotalContent(truncOut.e)) <= max_input_chars
    /\ EndsWith(truncOut.e.body, TruncMarker(Len(truncIn.body)))

OverBudget == Len(TotalContent(truncIn)) > max_input_chars

HasRoom == Len(truncIn.subject) + Len(truncIn.sender) + Buffer < max_input_chars

\* C6 as stated: for every subject, sender and body whose combined length
\* exceeds 12,000, the truncation step shortens the body so that the combined
\* length is at most 12,000 and the body ends with the original-length marker.
C6_TruncationAlwaysFits == (truncOut.n = 1 /\ OverBudget) => WithinBudget

\* C6 as amended: the same, for inputs whose subject and sender leave room
\* for a body (subject + sender + 200 under 12,000); otherwise the step
\* returns the input as it is.
C6_TruncationFitsWhenRoom ==
    /\ (truncOut.n = 1 /\ OverBudget /\ HasRoom) => WithinBudget
    /\ (truncOut.n = 1 /\ OverBudget /\ ~HasRoom) => truncOut.e = truncIn

C6_Witness ==
    /\ truncOut.n = 1 /\ OverBudget /\ HasRoom
    /\ Len(truncIn.body) = LongBody
    /\ truncOut.e.body # truncIn.body

ErrorClass(msg) ==
    CASE msg \in {OpenAIRateLimitMsg, GeminiRateLimitMsg} -> "rate_limit"
      [] msg \in {OpenAIKeyMsg, GeminiKeyMsg} -> "credentials"
      [] msg \in {OpenAIQuotaMsg, GeminiQuotaMsg} -> "quota"
      [] OTHER -> "generic"

BackendRaised == call.sum.pc = "returned" /\ call.sum.invoked = 1 /\ call.sum.outcome.kind = "raise"

RaisedLower == Lower(call.sum.outcome.msg)

\* C7 as stated: a backend error that signals a rate limit gives
\* success=false classified rate-limit-exceeded, and no message is classified
\* one way under one provider and another way under the other.
C7_RateLimitSameForBoth ==
    BackendRaised =>
        /\ Contains(RaisedLower, M_rate_limit) =>
               ~call.sum.result.success /\ ErrorClass(call.sum.result.error) = "rate_limit"
        /\ ErrorClass(call.sum.result.error) = ErrorClass(call.sum.peer.error)

\* C7 as amended: a backend error whose message contains rate_limit_exceeded
\* and neither api_key_invalid nor quota_exceeded gives success=false
\* classified rate-limit-exceeded under both providers; under Gemini the
\* shorter marker rate_limit is enough.
C7_RateLimitExceededForBoth ==
    BackendRaised =>
        /\ (/\ Contains(RaisedLower, M_rate_limit_exceeded)
            /\ ~Contains(RaisedLower, M_api_key_invalid)
            /\ ~Contains(RaisedLower, M_quota_exceeded)) =>
               /\ ~call.sum.result.success /\ ~call.sum.peer.success
               /\ ErrorClass(call.sum.result.error) = "rate_limit"
               /\ ErrorClass(call.sum.peer.error) = "rate_limit"
        /\ (/\ svc.model_provider = GEMINI
            /\ Contains(RaisedLower, M_rate_limit)
            /\ ~Contains(RaisedLower, M_api_key_invalid)
            /\ ~Contains(RaisedLower, M_quota_exceeded)) =>
               ~call.sum.result.success /\ call.sum.result.error = GeminiRateLimitMsg

C7_Witness ==
    /\ BackendRaised
    /\ svc.model_provider = OPENAI
    /\ call.sum.outcome.msg = <<"RATE_LIMIT", "_exceeded">>
    /\ call.sum.result.error = OpenAIRateLimitMsg
    /\ call.sum.peer.error = GeminiRateLimitMsg

\* the raw payload does not make an EmailData
BadPayload(raw) ==
    \/ Len(raw.subject) = 0
    \/ Len(raw.sender) = 0
    \/ Len(Strip(raw.body)) < MinBodyLength

\* C8: EmailData validation completes before any backend call, and a request
\* whose payload fails validation makes no backend call and is answered with
\* a client error.
C8_ValidationBeforeBackends ==
    \A r \in Req :
        /\ requests[r].calls # <<>> =>
               /\ "ok" \in DOMAIN requests[r].email
               /\ requests[r].email.ok
               /\ ~BadPayload(requests[r].raw)
        /\ (BadPayload(requests[r].raw) /\ requests[r].pc # "pending") =>
               /\ requests[r].calls = <<>>
               /\ requests[r].pc = "done"
               /\ requests[r].response.status \in 400..499

C8_Witness ==
    \E r, t \in Req :
        /\ BadPayload(requests[r].raw) /\ requests[r].pc = "done"
        /\ requests[r].response.status = 422
        /\ requests[t].calls = <<"summarize", "synthesize">>

ModelNameOf(p) == IF p = GEMINI THEN "gemini-2.0-flash-001" ELSE "gpt-4o"

\* C9: after a switch_provider(p) that returned normally, the instance has
\* model_provider = p and its llm and model_name are those of p.
C9_SwitchedInstanceServesP ==
    (call.switch.done /\ ~call.switch.raised) =>
        /\ svc.built
        /\ svc.model_provider = ToProvider(call.switch.x)
        /\ svc.llm.of = ToProvider(call.switch.x)
        /\ svc.model_name = ModelNameOf(ToProvider(call.switch.x))

Waiting(q) == q.pc \in {"llm_wait", "tts_wait"}

\* C10: while one request waits for its summarization or speech backend call
\* to return, another request that has not finished is able to take a step.
C10_PendingCallStallsNoOne ==
    \A r, t \in Req :
        (r # t /\ Waiting(requests[r]) /\ requests[t].pc # "done") =>
            ENABLED (Receive(t) \/ LlmReturn(t) \/ TtsReturn(t))

IsPrefix(s, t) == Len(s) <= Len(t) /\ s = SubSeq(t, 1, Len(s))

Pipeline == <<"summarize", "synthesize">>

Completed(q) == q.pc = "done" /\ q.response.status = 200

TtsRaisedMsg(q) ==
    TtsErrorHead \o (IF q.tts_outcome.kind = "raise" THEN q.tts_outcome.msg ELSE NoAudioMsg)

\* C12: an exception raised inside the pipeline that is not one of the two
\* stage failures ends the request with status 500 and the generic
\* unexpected-error text followed by the exception's message; every finished
\* request carries a structured response.
C12_UnexpectedErrorsAreGeneric500 ==
    \A r \in Req :
        LET q == requests[r]
        IN  /\ q.pc = "done" =>
                   \/ q.response.status = 200 /\ "body" \in DOMAIN q.response
                   \/ q.response.status \in {422, ServerError} /\ "detail" \in DOMAIN q.response
            /\ TtsFailed(q) =>
                   /\ q.pc = "done"
                   /\ q.response = [status |-> ServerError,
                                    detail |-> UnexpectedHead \o TtsRaisedMsg(q)]

C12_Witness ==
    \E r \in Req :
        /\ requests[r].pc = "done"
        /\ TtsEnded(requests[r]) /\ requests[r].tts_outcome.kind = "raise"
        /\ requests[r].response.detail = UnexpectedHead \o TtsErrorHead \o <<"timeout">>

\* C13: the text handed to the speech backend is the summary string of the
\* summarization result, and the summary field of a 200 response is that
\* same string.
C13_SpokenTextIsTheSummary ==
    \A r \in Req :
        LET q == requests[r]
        IN  (SummaryOk(q) /\ Called(q, "synthesize")) =>
                /\ q.tts_text.type = "str" /\ q.tts_text.form = "chars"
                /\ q.tts_text.v = q.summary_text.v.summary
                /\ Completed(q) =>
                       /\ q.response.body.summary.type = "str"
                       /\ q.response.body.summary = q.tts_text

CredentialOf(p) == IF p = GEMINI THEN "GEMINI_API_KEY" ELSE "OPENAI_API_KEY"

\* C14: a constructed LangchainService holds the client of its provider and
\* a constructed MurfAIService holds a key; construction with an
\* unrecognized identifier, with the provider's key unset, or (speech) with
\* no key at all raises; no summarize or synthesize call runs on an object
\* that was not constructed.
C14_ConstructedHoldsClient ==
    /\ svc.built =>
           /\ svc.model_provider \in ModelProvider
           /\ svc.llm.of = svc.model_provider
           /\ CredentialOf(svc.model_provider) \in env
    /\ call.ctor.tried =>
           /\ call.ctor.raised = ~svc.built
           /\ (\/ ToProvider(call.ctor.x) = None
               \/ CredentialOf(ToProvider(call.ctor.x)) \notin env) => call.ctor.raised
    /\ murf.self.built => Truthy(murf.self.api_key)
    /\ murf.ctor.tried =>
           /\ murf.ctor.raised = ~murf.self.built
           /\ (~Truthy(murf.ctor.x) /\ "MURF_API_KEY" \notin env) => murf.ctor.raised
    /\ call.sum.pc # "idle" => svc.built
    /\ murf.tts.pc # "idle" => murf.self.built

C14_Witness ==
    /\ call.ctor.tried /\ call.ctor.raised
    /\ call.ctor.x = [kind |-> "str", v |-> "gemini"]
    /\ env = {"GOOGLE_AI_API_KEY", "OPENAI_API_KEY"}
    /\ murf.ctor.tried /\ ~murf.ctor.raised /\ murf.ctor.x = PyStr(<<"k">>)
    /\ murf.tts.pc = "returned"

Blank(s) == \A i \in 1..Len(s) : s[i] \in WS

\* t is raw without its leading and trailing whitespace, nothing else changed
IsTrimOf(t, raw) ==
    /\ \E i \in 0..Len(raw) :
           /\ i + Len(t) <= Len(raw)
           /\ Blank(SubSeq(raw, 1, i))
           /\ t = SubSeq(raw, i + 1, i + Len(t))
           /\ Blank(SubSeq(raw, i + Len(t) + 1, Len(raw)))
    /\ t # <<>> => (t[1] \notin WS /\ t[Len(t)] \notin WS)

\* the number of characters of raw between its first and its last non-blank one
TrimmedLen(raw) ==
    LET n == Len(raw)
        lead == CHOOSE k \in 0..n : Blank(SubSeq(raw, 1, k)) /\ (k = n \/ raw[k + 1] \notin WS)
        trail == CHOOSE k \in 0..n : Blank(SubSeq(raw, n - k + 1, n)) /\ (k = n \/ raw[n - k] \notin WS)
    IN  IF lead = n THEN 0 ELSE n - lead - trail

\* C15: the fields of an accepted EmailData are the raw subject, sender and
\* body without their leading and trailing whitespace, and the length check
\* is made on the trimmed body: with subject and sender given, a body of 10
\* or more characters after trimming is accepted, a shorter one is not.
C15_AcceptedFieldsAreTrimmed ==
    ("ok" \in DOMAIN emailOut) =>
        /\ emailOut.ok =>
               /\ IsTrimOf(emailOut.subject, emailIn.subject)
               /\ IsTrimOf(emailOut.sender, emailIn.sender)
               /\ IsTrimOf(emailOut.body, emailIn.body)
        /\ (Len(emailIn.subject) >= 1 /\ Len(emailIn.sender) >= 1) =>
               (emailOut.ok <=> TrimmedLen(emailIn.body) >= 10)

C15_Witness ==
    /\ "ok" \in DOMAIN emailOut /\ emailOut.ok
    /\ emailIn.body = <<"\t">> \o Core(MinBodyLength) \o <<" ">>
    /\ emailOut.body = Core(MinBodyLength)
    /\ emailIn.subject = <<" ">> \o Core(2) \o <<"\t">>
    /\ emailOut.subject = Core(2)

\* C16: summarize_email returns a result for every input and every backend
\* behaviour (content, blank content, no content, any exception); the result
\* has a summary exactly when success is true and an error exactly when
\* success is false.
C16_ResultShape ==
    /\ call.sum.pc = "invoked" => ENABLED SummarizeReturn(LlmOutcomes(MaxMsgLen))
    /\ call.sum.pc = "returned" =>
           /\ "success" \in DOMAIN call.sum.result
           /\ ("summary" \in DOMAIN call.sum.result) <=> call.sum.result.success
           /\ ("error" \in DOMAIN call.sum.result) <=> ~call.sum.result.success

C16_Witness ==
    /\ call.sum.pc = "returned" /\ call.sum.invoked = 1
    /\ call.sum.outcome = [kind |-> "return_none"]
    /\ ~call.sum.result.success
    /\ call.sum.result.error = NoStripMsg

\* C17: _handle_long_content returns the subject and the sender it was
\* given, and the body too whenever subject, sender and body together (with
\* the two separating blanks) do not exceed 12,000 characters.
C17_TruncationKeepsTheRest ==
    truncOut.n >= 1 =>
        /\ truncOut.e.subject = truncIn.subject
        /\ truncOut.e.sender = truncIn.sender
        /\ Len(truncIn.subject) + 1 + Len(truncIn.sender) + 1 + Len(truncIn.body) <= 12000
               => truncOut.e.body = truncIn.body

C17_Witness ==
    /\ truncOut.n = 1
    /\ Len(truncIn.subject) + Len(truncIn.sender) + Len(truncIn.body) + 2 = 12000
    /\ Len(truncIn.body) > Buffer
    /\ truncOut.e = truncIn

\* C18: text_to_speech ends in one of two ways for every backend outcome: it
\* returns the non-empty audio_file of the backend's response, or it raises
\* one error whose message is the conversion-error text followed by the
\* original message; it never returns an empty or missing reference.
C18_AudioOrOneError ==
    murf.tts.pc = "returned" =>
        LET o == murf.tts.outcome
            res == murf.tts.result
        IN  \/ /\ ~res.raised
               /\ res.audio_file.type = "str" /\ res.audio_file.v # <<>>
               /\ o.kind = "return" /\ o.response.type = "Response"
               /\ res.audio_file = o.response.audio_file
            \/ /\ res.raised
               /\ res.msg = TtsErrorHead \o (IF o.kind = "raise" THEN o.msg ELSE NoAudioMsg)
               /\ o.kind = "return" => (\/ o.response.type = "NoneType"
                                        \/ o.response.audio_file.v = <<>>)

C18_Witness ==
    /\ murf.tts.pc = "returned"
    /\ murf.tts.outcome = [kind |-> "return",
                           response |-> [type |-> "Response", audio_file |-> PyStr(<<>>)]]
    /\ murf.tts.result = [raised |-> TRUE, msg |-> TtsErrorHead \o NoAudioMsg]

\* model_provider, llm and model_name of the instance name one provider
Consistent(self) ==
    /\ self.llm.of = self.model_provider
    /\ self.model_name = ModelNameOf(self.model_provider)

\* C19: a switch_provider call that raised has left model_provider, llm and
\* model_name as they were, and after any sequence of switch_provider calls
\* the three refer to the same provider.
C19_FailedSwitchChangesNothing ==
    /\ (call.switch.done /\ call.switch.raised) => svc = call.switch.before
    /\ svc.built => Consistent(svc)

\* C20: a summarize_email call on an instance whose fields agreed when it was
\* called, and which invoked the backend and succeeded, reports the provider
\* and the model of the client that served the invocation, whatever
\* switch_provider calls ran on the instance in the meantime.
C20_ResultNamesServingClient ==
    (/\ call.sum.pc = "returned" /\ call.sum.invoked = 1
     /\ Consistent(call.sum.at_call)
     /\ call.sum.result.success) =>
        /\ call.sum.result.provider = call.sum.served_by
        /\ call.sum.result.model = ModelNameOf(call.sum.served_by)

\* the body of the input cut once: its first characters up to the room left
\* by subject, sender and buffer, then the marker of its original length
CutOnce ==
    Prefix(truncIn.body, max_input_chars - (Len(truncIn.subject) + Len(truncIn.sender) + Buffer))
        \o TruncMarker(Len(truncIn.body))

\* C21: _handle_long_content applied to its own output returns it unchanged;
\* a body that was truncated is the input body cut and marked exactly once,
\* however often the step has been applied.
C21_TruncationIdempotent ==
    truncOut.n >= 1 =>
        /\ handle_long_content(truncOut.e) = truncOut.e
        /\ truncOut.e.body # truncIn.body => truncOut.e.body = CutOnce

C21_Witness ==
    /\ truncOut.n = 2
    /\ OverBudget /\ HasRoom
    /\ truncOut.e.body = CutOnce
    /\ Len(truncOut.e.body) < Len(truncIn.body)

====
